---- MODULE Spec2Model ----
(***************************************************************************)
(* A model of the ffind search engine (package searcher in src/cmd/root.go):*)
(* Search starts the worker goroutines, walks the tree with filepath.Walk, *)
(* pushes the candidate files on fileChan, closes it and waits; every      *)
(* worker runs processFile on the paths it receives.                       *)
(*                                                                         *)
(* Strings are sequences of bytes (65 = 'A', 97 = 'a', 40 = '(', 46 = '.', *)
(* 47 = '/', 32 = ' ', 255 = a byte that is never valid UTF-8, and         *)
(* 239 191 189 = the UTF-8 encoding of U+FFFD).  Offsets are byte offsets  *)
(* counted from 0 as in Go; Slice(s, lo, hi) is Go's s[lo:hi].             *)
(***************************************************************************)
EXTENDS Integers, Sequences, FiniteSets, TLC

VARIABLES
  tree,        \* the file tree under cfg.StartDir (fixed during a search)
  cfg,         \* the Config handed to Search
  spc,         \* where Search is: "start", "walk", "wait", "done"
  nworkers,    \* cfg.Workers after the normalisation of lines 158-160
  stack,       \* entries filepath.Walk has still to visit, in visiting order
  walkErr,     \* the error filepath.Walk returns ("nil" or "err")
  visited,     \* entries the walk callback has been called on
  pushed,      \* entries sent on fileChan, in sending order
  fileChan,    \* the buffered channel: paths sent and not yet received
  closed,      \* fileChan has been closed
  mu,          \* the mutex: 0 when free, else the worker holding it
  matchCount,  \* the shared counters of Search
  fileCount,
  wpc,         \* each worker's position
  wfile,       \* the file a worker is in processFile for (0: none)
  wlineNum,    \* lineNum of processFile
  wmatched,    \* fileMatched of processFile
  wmatches,    \* allMatches of the current line (regex branch)
  wpos,        \* pos (regex branch) / start (literal branch) of the highlight loop
  witer,       \* iterations of the highlight loop done on the current line
  out,         \* what has been written to the terminal, per file
  crashed,     \* a goroutine has panicked: the process is gone
  ret          \* what Search returned

vars == <<tree, cfg, spc, nworkers, stack, walkErr, visited, pushed, fileChan,
          closed, mu, matchCount, fileCount, wpc, wfile, wlineNum, wmatched,
          wmatches, wpos, witer, out, crashed, ret>>

\* ------------------------------------------------------------------ bounds

\* the longest line of the files whose content is enumerated
MaxLineLen == 3
\* the longest keyword enumerated
MaxKwLen == 2
\* the largest cfg.Workers enumerated (0 stands for every non-positive value)
MaxWorkers == 2
\* the number of highlight-loop iterations followed on one line: enough for
\* every loop that ends, a cut for the loop that does not
MaxIter == MaxLineLen + 2

\* ------------------------------------------------- program constants

\* make(chan string, 100)
ChanCap == 100
\* cfg.Workers = 4
DefaultWorkers == 4

\* ------------------------------------------------------- strings (bytes)

Min(S) == CHOOSE x \in S : \A y \in S : x <= y
Max(S) == CHOOSE x \in S : \A y \in S : x >= y

\* Go's s[lo:hi] is defined iff 0 <= lo <= hi <= len(s); otherwise it panics
SliceOK(s, lo, hi) == 0 <= lo /\ lo <= hi /\ hi <= Len(s)
Slice(s, lo, hi) == SubSeq(s, lo + 1, hi)

LowerByte(c) == IF c >= 65 /\ c <= 90 THEN c + 32 ELSE c
IsASCII(s) == \A i \in 1..Len(s) : s[i] < 128

\* strings.Map(unicode.ToLower, s): an ASCII byte is lowered, the encoding of
\* U+FFFD is kept, and every byte that is not valid UTF-8 is replaced by the
\* three bytes of U+FFFD
RECURSIVE MapLower(_)
MapLower(s) ==
  IF s = <<>> THEN <<>>
  ELSE IF Head(s) < 128 THEN <<LowerByte(Head(s))>> \o MapLower(Tail(s))
  ELSE IF Len(s) >= 3 /\ SubSeq(s, 1, 3) = <<239, 191, 189>>
       THEN <<239, 191, 189>> \o MapLower(SubSeq(s, 4, Len(s)))
  ELSE <<239, 191, 189>> \o MapLower(Tail(s))

\* strings.ToLower: the ASCII fast path, else strings.Map
ToLowerBytewise(s) == [i \in 1..Len(s) |-> LowerByte(s[i])]
ToLower(s) == IF IsASCII(s) THEN ToLowerBytewise(s) ELSE MapLower(s)

\* strings.Index: the offset of the first occurrence of sub in s, or -1
Index(s, sub) ==
  LET cands == {i \in 0..(Len(s) - Len(sub)) :
                  \A j \in 1..Len(sub) : s[i + j] = sub[j]}
  IN IF cands = {} THEN -1 ELSE Min(cands)

\* strings.Contains
Contains(s, sub) == Index(s, sub) >= 0

LastIndexByte(s, c) ==
  LET at == {i \in 1..Len(s) : s[i] = c} IN IF at = {} THEN 0 ELSE Max(at)

RECURSIVE StripSlashes(_)
StripSlashes(p) ==
  IF p # <<>> /\ p[Len(p)] = 47 THEN StripSlashes(SubSeq(p, 1, Len(p) - 1)) ELSE p

\* filepath.Base: the last element of the path
Base(p) ==
  IF p = <<>> THEN <<46>>
  ELSE LET q == StripSlashes(p)
       IN IF q = <<>> THEN <<47>>
          ELSE SubSeq(q, LastIndexByte(q, 47) + 1, Len(q))

\* filepath.Ext: the suffix of the last element that starts at its last dot
Ext(p) ==
  IF LastIndexByte(p, 46) > LastIndexByte(p, 47)
  THEN SubSeq(p, LastIndexByte(p, 46), Len(p))
  ELSE <<>>

\* bytewise lexical order, the order readDirNames sorts the names in
RECURSIVE Less(_, _)
Less(a, b) ==
  IF b = <<>> THEN FALSE
  ELSE IF a = <<>> THEN TRUE
  ELSE IF Head(a) # Head(b) THEN Head(a) < Head(b)
  ELSE Less(Tail(a), Tail(b))

\* --------------------------------------------------------------- regexp

\* the pattern processFile compiles: "(?i)" + cfg.Keyword when IgnoreCase
Pattern(c) == IF c.IgnoreCase THEN <<40, 63, 105, 41>> \o c.Keyword ELSE c.Keyword

\* regexp.Compile on the patterns of the model: an optional leading (?i),
\* then literal ASCII letters; an unclosed '(' or a byte that is not UTF-8
\* is a compile error
Compile(pattern) ==
  LET fold == Len(pattern) >= 4 /\ SubSeq(pattern, 1, 4) = <<40, 63, 105, 41>>
      body == IF fold THEN SubSeq(pattern, 5, Len(pattern)) ELSE pattern
  IN [ok |-> \A i \in 1..Len(body) : body[i] # 40 /\ body[i] < 128,
      fold |-> fold,
      lit |-> body]

\* the compiled pattern matches line at offset i
MatchAt(re, line, i) ==
  /\ i + Len(re.lit) <= Len(line)
  /\ \A j \in 1..Len(re.lit) :
       IF re.fold THEN LowerByte(line[i + j]) = LowerByte(re.lit[j])
       ELSE line[i + j] = re.lit[j]

\* the leftmost match starting at or after pos: <<start, end>>, or <<>>
FindFrom(re, line, pos) ==
  LET at == {i \in pos..Len(line) : MatchAt(re, line, i)}
  IN IF at = {} THEN <<>> ELSE <<Min(at), Min(at) + Len(re.lit)>>

\* re.FindStringIndex(line)
FindStringIndex(re, line) == FindFrom(re, line, 0)

\* the loop of regexp.allMatches: an empty match moves pos one byte on and is
\* dropped when it touches the previous match
RECURSIVE AllMatchesFrom(_, _, _, _)
AllMatchesFrom(re, line, pos, prevMatchEnd) ==
  IF pos > Len(line) THEN <<>>
  ELSE LET m == FindFrom(re, line, pos)
       IN IF m = <<>> THEN <<>>
          ELSE LET empty == m[2] = pos
                   accept == ~(empty /\ m[1] = prevMatchEnd)
                   next == IF empty THEN pos + 1 ELSE m[2]
                   rest == AllMatchesFrom(re, line, next, m[2])
               IN IF accept THEN <<m>> \o rest ELSE rest

\* re.FindAllStringIndex(line, -1)
FindAllStringIndex(re, line) == AllMatchesFrom(re, line, 0, -1)

\* ----------------------------------------------------------- file trees

\* A tree is a sequence of entries, entry 1 being cfg.StartDir.  kind is what
\* os.Lstat reports: "dir", "reg", "other" (symlink, device, ...) or "err"
\* (Lstat fails).  listErr: the directory cannot be listed.  openErr: os.Open
\* fails.  longAt: the number of the first line longer than the scanner's
\* buffer (0: none).
Entry(name, parent, kind) ==
  [name |-> name, parent |-> parent, kind |-> kind, listErr |-> FALSE,
   openErr |-> FALSE, lines |-> <<>>, longAt |-> 0]
DirEntry(name, parent) == Entry(name, parent, "dir")
FileEntry(name, parent, lines) == [Entry(name, parent, "reg") EXCEPT !.lines = lines]

Nodes(t) == 1..Len(t)

\* filepath.Join(path, name) as filepath.Walk builds the path of an entry
RECURSIVE PathOf(_, _)
PathOf(t, n) ==
  IF t[n].parent = 0 THEN t[n].name
  ELSE PathOf(t, t[n].parent) \o <<47>> \o t[n].name

\* readDirNames: the entries of a directory, sorted by name
SortNodes(t, S) ==
  [i \in 1..Cardinality(S) |->
     CHOOSE n \in S :
       Cardinality({m \in S : Less(t[m].name, t[n].name)}) = i - 1]

ReadDirNames(t, n) == SortNodes(t, {m \in Nodes(t) : t[m].parent = n})

RECURSIVE Ancestors(_, _)
Ancestors(t, n) ==
  IF t[n].parent = 0 THEN {} ELSE {t[n].parent} \cup Ancestors(t, t[n].parent)

\* -------------------------------------------------- the walk callback

\* the exclusion is applied below the root only
ExcludedDirBelowRoot(c, path) ==
  /\ LastIndexByte(path, 47) > 0
  /\ \E i \in 1..Len(c.ExcludeDirs) : Base(path) = c.ExcludeDirs[i]

\* lines 194-202: the directory's base name is an entry of ExcludeDirs
ExcludedDir(c, path) ==
  \E i \in 1..Len(c.ExcludeDirs) : Base(path) = c.ExcludeDirs[i]

\* the extension of the path is compared without being lowered
ExtAllowedCaseSensitive(c, path) ==
  \/ Len(c.Exts) = 0
  \/ \E i \in 1..Len(c.Exts) : Ext(path) = <<46>> \o ToLower(c.Exts[i])

\* lines 205-217: the extension filter lets the path through
ExtAllowed(c, path) ==
  \/ Len(c.Exts) = 0
  \/ \E i \in 1..Len(c.Exts) : ToLower(Ext(path)) = <<46>> \o ToLower(c.Exts[i])

\* the callback hands the error back to filepath.Walk (`return err`)
OnWalkErrorReturned == "err"

\* what the callback returns when filepath.Walk hands it an error
OnWalkError == "nil"

\* the callback skips the directory entry but not what is below it
OnExcludedNotPruned == "nil"

\* what the callback returns for an excluded directory
OnExcluded == "SkipDir"

\* the callback of filepath.Walk on entry n; failed: Walk passes an error
\* (Lstat or the listing of the directory failed).  ret is the value
\* returned, push whether the path is sent on fileChan
WalkFn(t, c, n, failed) ==
  IF failed THEN [ret |-> OnWalkError, push |-> FALSE]
  ELSE IF t[n].kind = "dir"
       THEN [ret |-> IF ExcludedDir(c, PathOf(t, n)) THEN OnExcluded ELSE "nil",
             push |-> FALSE]
  ELSE IF ~ExtAllowed(c, PathOf(t, n)) THEN [ret |-> "nil", push |-> FALSE]
  ELSE [ret |-> "nil", push |-> t[n].kind = "reg"]

\* filepath.Walk / walk on the entry at the head of the stack: the error it
\* passes to the callback, and what it does with the callback's result
WalkFailed(t, n) == t[n].kind = "err" \/ (t[n].kind = "dir" /\ t[n].listErr)

\* the entries left to visit after the callback returned r on entry n
StackAfter(t, n, r, rest) ==
  IF r \notin {"nil", "SkipDir"} THEN <<>>
  ELSE IF t[n].kind = "err" THEN rest
  ELSE IF t[n].kind = "dir"
       THEN IF t[n].listErr \/ r = "SkipDir" THEN rest
            ELSE ReadDirNames(t, n) \o rest
  ELSE IF r = "SkipDir"
       THEN SelectSeq(rest, LAMBDA m : t[m].parent # t[n].parent)
       ELSE rest

\* ------------------------------------------------------------- Search

WorkerIds == 1..Max({DefaultWorkers, MaxWorkers})

\* lines 158-160
NormWorkers(w) == IF w <= 0 THEN DefaultWorkers ELSE w

\* lines 177-185: Search starts the workers, then the walk
Start ==
  /\ spc = "start"
  /\ ~crashed
  /\ nworkers' = NormWorkers(cfg.Workers)
  /\ wpc' = [w \in WorkerIds |-> IF w <= NormWorkers(cfg.Workers) THEN "recv" ELSE "none"]
  /\ stack' = <<1>>
  /\ spc' = "walk"
  /\ UNCHANGED <<tree, cfg, walkErr, visited, pushed, fileChan, closed, mu,
                 matchCount, fileCount, wfile, wlineNum, wmatched, wmatches,
                 wpos, witer, out, crashed, ret>>

\* the channel has no capacity limit
CanSendUnbounded(q) == TRUE

\* line 221: `fileChan <- path` goes through when the buffer has room
CanSend(q) == Len(q) < ChanCap

\* lines 188-224: one entry of the walk; a send on a full channel blocks
WalkStep ==
  /\ spc = "walk"
  /\ ~crashed
  /\ stack # <<>>
  /\ LET n == Head(stack)
         r == WalkFn(tree, cfg, n, WalkFailed(tree, n))
     IN /\ r.push => CanSend(fileChan)
        /\ visited' = visited \cup {n}
        /\ fileChan' = IF r.push THEN Append(fileChan, n) ELSE fileChan
        /\ pushed' = IF r.push THEN Append(pushed, n) ELSE pushed
        /\ stack' = StackAfter(tree, n, r.ret, Tail(stack))
        /\ walkErr' = IF r.ret \notin {"nil", "SkipDir"} THEN r.ret ELSE walkErr
  /\ UNCHANGED <<tree, cfg, spc, nworkers, closed, mu, matchCount, fileCount,
                 wpc, wfile, wlineNum, wmatched, wmatches, wpos, witer, out,
                 crashed, ret>>

\* Search goes on to wg.Wait() without closing the channel
CloseForgotten == FALSE

\* line 226: what close(fileChan) makes of the channel's closed flag
CloseAfterWalk == TRUE

\* line 226: filepath.Walk has returned, close(fileChan)
CloseChan ==
  /\ spc = "walk"
  /\ ~crashed
  /\ stack = <<>>
  /\ closed' = CloseAfterWalk
  /\ spc' = "wait"
  /\ UNCHANGED <<tree, cfg, nworkers, stack, walkErr, visited, pushed, fileChan,
                 mu, matchCount, fileCount, wpc, wfile, wlineNum, wmatched,
                 wmatches, wpos, witer, out, crashed, ret>>

\* Search does not wait for the workers
WaitDoneNoWait(pcs, n) == TRUE

\* wg.Wait() returns when every worker has called wg.Done()
WaitDone(pcs, n) == \A w \in WorkerIds : w <= n => pcs[w] = "exited"

\* lines 227-234: wait for the workers, then return
Return ==
  /\ spc = "wait"
  /\ ~crashed
  /\ WaitDone(wpc, nworkers)
  /\ ret' = IF walkErr # "nil"
            THEN [matchCount |-> 0, fileCount |-> 0, err |-> walkErr]
            ELSE [matchCount |-> matchCount, fileCount |-> fileCount, err |-> "nil"]
  /\ spc' = "done"
  /\ UNCHANGED <<tree, cfg, nworkers, stack, walkErr, visited, pushed, fileChan,
                 closed, mu, matchCount, fileCount, wpc, wfile, wlineNum,
                 wmatched, wmatches, wpos, witer, out, crashed>>

\* -------------------------------------------------------- processFile

\* what a worker never writes
walkVars == <<tree, cfg, spc, nworkers, stack, walkErr, visited, pushed, closed, ret>>

\* the regexp processFile compiles for the file (lines 249-261)
FileRegexp(c) == Compile(Pattern(c))

\* the worker leaves as soon as it finds the channel empty
ChanDoneWhenEmpty(q, isClosed) == q = <<>>

\* `for path := range fileChan` ends when the channel is closed and empty
ChanDone(q, isClosed) == isClosed /\ q = <<>>

\* mu.Lock() returns at once, whoever holds the mutex
CanLockAlways(holder) == TRUE

\* mu.Lock() returns only when nobody holds the mutex
CanLock(holder) == holder = 0

\* scanner.Scan() returns false: end of file, or the next line does not fit
\* the scanner's buffer
ScanEnds(file, lineNum) ==
  lineNum + 1 > Len(file.lines) \/ lineNum + 1 = file.longAt

\* lines 273-281: the regex branch skips the line
RegexSkips(re, line) ==
  FindStringIndex(re, line) = <<>> \/ Len(FindAllStringIndex(re, line)) = 0

\* lines 313-322: the literal branch skips the line
LiteralSkips(c, line) ==
  LET searchLine == IF c.IgnoreCase THEN ToLower(line) ELSE line
      searchKeyword == IF c.IgnoreCase THEN ToLower(c.Keyword) ELSE c.Keyword
  IN ~Contains(searchLine, searchKeyword)

LineSkipped(c, line) ==
  IF c.Regexp THEN RegexSkips(FileRegexp(c), line) ELSE LiteralSkips(c, line)

\* the regex branch counts only the matches after the first of a line
LineCountExtraOnly(c, allMatches) == IF c.Regexp THEN Len(allMatches) - 1 ELSE 1

\* line 289 / line 330: what one reported line adds to matchCount
LineCount(c, allMatches) == IF c.Regexp THEN Len(allMatches) ELSE 1

\* fileMatched is never set
MatchedNeverSet(fileMatched) == fileMatched

\* lines 287 / 328: fileMatched after the first reported line
MatchedAfterHeader(fileMatched) == TRUE

Seg(text, hl) == <<"seg", text, hl>>

\* one iteration of the highlight loop (lines 296-303 and 339-348) on `line`
\* with the cursor at pos.  kind: "emit" (a span was printed), "break" (the
\* loop is over) or "panic" (a slice expression out of range); events: what
\* was printed before
HighlightStep(c, line, pos, allMatches) ==
  IF c.Regexp
  THEN IF allMatches = <<>>
       THEN [kind |-> "break", events |-> <<>>, pos |-> pos, rest |-> <<>>]
       ELSE LET start == Head(allMatches)[1]
                end == Head(allMatches)[2]
            IN IF ~SliceOK(line, pos, start)
               THEN [kind |-> "panic", events |-> <<>>, pos |-> pos, rest |-> allMatches]
               ELSE IF ~SliceOK(line, start, end)
               THEN [kind |-> "panic",
                     events |-> <<Seg(<<32, 32>> \o Slice(line, pos, start), FALSE)>>,
                     pos |-> pos, rest |-> allMatches]
               ELSE [kind |-> "emit",
                     events |-> <<Seg(<<32, 32>> \o Slice(line, pos, start), FALSE),
                                  Seg(Slice(line, start, end), TRUE)>>,
                     pos |-> end, rest |-> Tail(allMatches)]
  ELSE LET lowerLine == ToLower(line)
           lowerKeyword == ToLower(c.Keyword)
       IN IF ~SliceOK(lowerLine, pos, Len(lowerLine))
          THEN [kind |-> "panic", events |-> <<>>, pos |-> pos, rest |-> <<>>]
          ELSE LET idx == Index(Slice(lowerLine, pos, Len(lowerLine)), lowerKeyword)
                   absIdx == pos + idx
               IN IF idx = -1
                  THEN [kind |-> "break", events |-> <<>>, pos |-> pos, rest |-> <<>>]
                  ELSE IF ~SliceOK(line, pos, absIdx)
                  THEN [kind |-> "panic", events |-> <<>>, pos |-> pos, rest |-> <<>>]
                  ELSE IF ~SliceOK(line, absIdx, absIdx + Len(c.Keyword))
                  THEN [kind |-> "panic",
                        events |-> <<Seg(<<32, 32>> \o Slice(line, pos, absIdx), FALSE)>>,
                        pos |-> pos, rest |-> <<>>]
                  ELSE [kind |-> "emit",
                        events |-> <<Seg(<<32, 32>> \o Slice(line, pos, absIdx), FALSE),
                                     Seg(Slice(line, absIdx, absIdx + Len(c.Keyword)), TRUE)>>,
                        pos |-> absIdx + Len(c.Keyword), rest |-> <<>>]

\* lines 305-309 and 349-353: the rest of the line and the line end
TailEvents(line, pos) ==
  IF pos < Len(line)
  THEN <<Seg(<<32, 32>> \o Slice(line, pos, Len(line)), FALSE), <<"eol">>>>
  ELSE <<<<"eol">>>>

CurLine(w) == tree[wfile[w]].lines[wlineNum[w]]

\* the path received stays in the channel
AfterRecvKept(q) == q

\* line 181: what a receive leaves in the channel
AfterRecv(q) == Tail(q)

\* line 181: a worker receives a path
WorkerRecv(w) ==
  /\ ~crashed
  /\ wpc[w] = "recv"
  /\ fileChan # <<>>
  /\ wfile' = [wfile EXCEPT ![w] = Head(fileChan)]
  /\ fileChan' = AfterRecv(fileChan)
  /\ wpc' = [wpc EXCEPT ![w] = "open"]
  /\ UNCHANGED <<walkVars, mu, matchCount, fileCount, wlineNum, wmatched,
                 wmatches, wpos, witer, out, crashed>>

\* lines 180-184: the range loop ends, wg.Done()
WorkerExit(w) ==
  /\ ~crashed
  /\ wpc[w] = "recv"
  /\ ChanDone(fileChan, closed)
  /\ wpc' = [wpc EXCEPT ![w] = "exited"]
  /\ UNCHANGED <<walkVars, fileChan, mu, matchCount, fileCount, wfile, wlineNum,
                 wmatched, wmatches, wpos, witer, out, crashed>>

\* lines 239-261: os.Open and regexp.Compile; on failure processFile returns
WorkerOpen(w) ==
  /\ ~crashed
  /\ wpc[w] = "open"
  /\ IF tree[wfile[w]].openErr \/ (cfg.Regexp /\ ~FileRegexp(cfg).ok)
     THEN /\ wpc' = [wpc EXCEPT ![w] = "recv"]
          /\ wfile' = [wfile EXCEPT ![w] = 0]
          /\ UNCHANGED <<wlineNum, wmatched>>
     ELSE /\ wpc' = [wpc EXCEPT ![w] = "scan"]
          /\ wlineNum' = [wlineNum EXCEPT ![w] = 0]
          /\ wmatched' = [wmatched EXCEPT ![w] = FALSE]
          /\ UNCHANGED wfile
  /\ UNCHANGED <<walkVars, fileChan, mu, matchCount, fileCount, wmatches, wpos,
                 witer, out, crashed>>

\* lines 263-281 and 313-322: the next line is read and matched
WorkerScan(w) ==
  /\ ~crashed
  /\ wpc[w] = "scan"
  /\ IF ScanEnds(tree[wfile[w]], wlineNum[w])
     THEN /\ wpc' = [wpc EXCEPT ![w] = "recv"]
          /\ wfile' = [wfile EXCEPT ![w] = 0]
          /\ wlineNum' = [wlineNum EXCEPT ![w] = 0]
          /\ wmatched' = [wmatched EXCEPT ![w] = FALSE]
          /\ UNCHANGED wmatches
     ELSE LET line == tree[wfile[w]].lines[wlineNum[w] + 1]
          IN /\ wlineNum' = [wlineNum EXCEPT ![w] = @ + 1]
             /\ IF LineSkipped(cfg, line)
                THEN UNCHANGED <<wpc, wmatches>>
                ELSE /\ wpc' = [wpc EXCEPT ![w] = "lock"]
                     /\ wmatches' = [wmatches EXCEPT ![w] =
                          IF cfg.Regexp THEN FindAllStringIndex(FileRegexp(cfg), line)
                          ELSE <<>>]
             /\ UNCHANGED <<wfile, wmatched>>
  /\ UNCHANGED <<walkVars, fileChan, mu, matchCount, fileCount, wpos, witer,
                 out, crashed>>

\* lines 283 / 324: mu.Lock()
WorkerLock(w) ==
  /\ ~crashed
  /\ wpc[w] = "lock"
  /\ CanLock(mu)
  /\ mu' = w
  /\ wpc' = [wpc EXCEPT ![w] = "header"]
  /\ UNCHANGED <<walkVars, fileChan, matchCount, fileCount, wfile, wlineNum,
                 wmatched, wmatches, wpos, witer, out, crashed>>

\* lines 284-288 / 325-329: the header and fileCount, once per file
WorkerHeader(w) ==
  /\ ~crashed
  /\ wpc[w] = "header"
  /\ IF ~wmatched[w]
     THEN /\ out' = [out EXCEPT ![wfile[w]] = Append(@, <<"hdr">>)]
          /\ fileCount' = fileCount + 1
          /\ wmatched' = [wmatched EXCEPT ![w] = MatchedAfterHeader(wmatched[w])]
     ELSE UNCHANGED <<out, fileCount, wmatched>>
  /\ wpc' = [wpc EXCEPT ![w] = "count"]
  /\ UNCHANGED <<walkVars, fileChan, mu, matchCount, wfile, wlineNum, wmatches,
                 wpos, witer, crashed>>

\* lines 289 / 330: matchCount
WorkerCount(w) ==
  /\ ~crashed
  /\ wpc[w] = "count"
  /\ matchCount' = matchCount + LineCount(cfg, wmatches[w])
  /\ wpc' = [wpc EXCEPT ![w] = "unlock"]
  /\ UNCHANGED <<walkVars, fileChan, mu, fileCount, wfile, wlineNum, wmatched,
                 wmatches, wpos, witer, out, crashed>>

\* lines 290 / 331: mu.Unlock()
WorkerUnlock(w) ==
  /\ ~crashed
  /\ wpc[w] = "unlock"
  /\ mu' = 0
  /\ wpc' = [wpc EXCEPT ![w] = "num"]
  /\ UNCHANGED <<walkVars, fileChan, matchCount, fileCount, wfile, wlineNum,
                 wmatched, wmatches, wpos, witer, out, crashed>>

\* lines 292-295 / 333-338: the line number is printed, the cursor is set
WorkerNum(w) ==
  /\ ~crashed
  /\ wpc[w] = "num"
  /\ out' = [out EXCEPT ![wfile[w]] = Append(@, <<"num", wlineNum[w]>>)]
  /\ wpos' = [wpos EXCEPT ![w] = 0]
  /\ witer' = [witer EXCEPT ![w] = 0]
  /\ wpc' = [wpc EXCEPT ![w] = "hl"]
  /\ UNCHANGED <<walkVars, fileChan, mu, matchCount, fileCount, wfile, wlineNum,
                 wmatched, wmatches, crashed>>

\* lines 296-303 / 339-348: one iteration of the highlight loop
WorkerHighlight(w) ==
  /\ ~crashed
  /\ wpc[w] = "hl"
  /\ witer[w] < MaxIter
  /\ LET h == HighlightStep(cfg, CurLine(w), wpos[w], wmatches[w])
     IN /\ out' = [out EXCEPT ![wfile[w]] = @ \o h.events]
        /\ wpos' = [wpos EXCEPT ![w] = h.pos]
        /\ wmatches' = [wmatches EXCEPT ![w] = h.rest]
        /\ witer' = [witer EXCEPT ![w] = @ + 1]
        /\ wpc' = [wpc EXCEPT ![w] =
             IF h.kind = "emit" THEN "hl" ELSE IF h.kind = "break" THEN "tail" ELSE "panic"]
        /\ crashed' = (h.kind = "panic")
  /\ UNCHANGED <<walkVars, fileChan, mu, matchCount, fileCount, wfile, wlineNum,
                 wmatched>>

\* lines 304-309 / 349-353: the rest of the line
WorkerTail(w) ==
  /\ ~crashed
  /\ wpc[w] = "tail"
  /\ out' = [out EXCEPT ![wfile[w]] = @ \o TailEvents(CurLine(w), wpos[w])]
  /\ wpc' = [wpc EXCEPT ![w] = "scan"]
  /\ wmatches' = [wmatches EXCEPT ![w] = <<>>]
  /\ wpos' = [wpos EXCEPT ![w] = 0]
  /\ witer' = [witer EXCEPT ![w] = 0]
  /\ UNCHANGED <<walkVars, fileChan, mu, matchCount, fileCount, wfile, wlineNum,
                 wmatched, crashed>>

\* ------------------------------------------------- the searches checked

Config(kw, ic, exts, excl, workers, re) ==
  [StartDir |-> <<114>>, Keyword |-> kw, IgnoreCase |-> ic, Exts |-> exts,
   ExcludeDirs |-> excl, Workers |-> workers, Regexp |-> re]

SeqsUpTo(S, n) == UNION {[1..k -> S] : k \in 0..n}

\* bytes of the enumerated lines: 'a', 'A' and a byte that is not UTF-8
LineBytes == {97, 65, 255}
\* bytes of the enumerated keywords: 'a' and 'A' (the keyword "(" is searched
\* for in ErrorSearches)
KeywordBytes == {97, 65}

Lines == SeqsUpTo(LineBytes, MaxLineLen)
Keywords == SeqsUpTo(KeywordBytes, MaxKwLen)

\* names: "r", "f", "go", "md", "GO", "vendor", "sub"
NameR == <<114>>
NameF == <<102>>
ExtGo == <<103, 111>>
ExtMd == <<109, 100>>
ExtGO == <<71, 79>>
NameVendor == <<118, 101, 110, 100, 111, 114>>
NameSub == <<115, 117, 98>>
KwA == <<97>>

\* r/f with one line
TreeScan(line) == <<DirEntry(NameR, 0), FileEntry(NameF, 1, <<line>>)>>

\* r/{f: "a","aa"  g: "Aa"  h: empty}
TreeConc ==
  <<DirEntry(NameR, 0),
    FileEntry(<<102>>, 1, <<<<97>>, <<97, 97>>>>),
    FileEntry(<<103>>, 1, <<<<65, 97>>>>),
    FileEntry(<<104>>, 1, <<>>)>>

\* r/{a.GO: "a"  a.txt  c  l.go -> symlink  d.md/{e.MD}}
TreeFilter ==
  <<DirEntry(NameR, 0),
    FileEntry(<<97, 46, 71, 79>>, 1, <<<<97>>>>),
    FileEntry(<<97, 46, 116, 120, 116>>, 1, <<>>),
    FileEntry(<<99>>, 1, <<>>),
    Entry(<<108, 46, 103, 111>>, 1, "other"),
    DirEntry(<<100, 46, 109, 100>>, 1),
    FileEntry(<<101, 46, 77, 68>>, 6, <<>>)>>

\* r/{vendor/{v.go: "a"  sub/{d.go: "a"}}  m.go: "a"  Vendor/{w.go}}
TreeExclude ==
  <<DirEntry(NameR, 0),
    DirEntry(NameVendor, 1),
    FileEntry(<<118, 46, 103, 111>>, 2, <<<<97>>>>),
    DirEntry(NameSub, 2),
    FileEntry(<<100, 46, 103, 111>>, 4, <<<<97>>>>),
    FileEntry(<<109, 46, 103, 111>>, 1, <<<<97>>>>),
    DirEntry(<<86, 101, 110, 100, 111, 114>>, 1),
    FileEntry(<<119, 46, 103, 111>>, 7, <<>>)>>

\* r/{e.go: Lstat fails  u.go: cannot be opened  x/: cannot be listed {y.go}
\*    m.go: "a"}
TreeErrors ==
  <<DirEntry(NameR, 0),
    Entry(<<101, 46, 103, 111>>, 1, "err"),
    [FileEntry(<<117, 46, 103, 111>>, 1, <<<<97>>>>) EXCEPT !.openErr = TRUE],
    [DirEntry(<<120>>, 1) EXCEPT !.listErr = TRUE],
    FileEntry(<<121, 46, 103, 111>>, 4, <<<<97>>>>),
    FileEntry(<<109, 46, 103, 111>>, 1, <<<<97>>>>)>>

\* the root does not exist
TreeNoRoot == <<Entry(NameR, 0, "err")>>

\* the root is a regular file
TreeRootFile == <<FileEntry(NameR, 0, <<<<97>>>>)>>

\* r/f: "a", a line too long for the scanner, "a"
TreeLongLine ==
  <<DirEntry(NameR, 0),
    [FileEntry(NameF, 1, <<<<97>>, <<97>>, <<97>>>>) EXCEPT !.longAt = 2]>>

\* r/{aa, ab, ...}: two empty files more than fileChan holds
TreeQueue ==
  <<DirEntry(NameR, 0)>> \o
    [k \in 1..(ChanCap + 2) |->
       FileEntry(<<97 + ((k - 1) \div 26), 97 + ((k - 1) % 26)>>, 1, <<>>)]

\* r/{f: "A", "a", "A", "a"  g: "A", "A", "a"}
TreeSkip ==
  <<DirEntry(NameR, 0),
    FileEntry(<<102>>, 1, <<<<65>>, <<97>>, <<65>>, <<97>>>>),
    FileEntry(<<103>>, 1, <<<<65>>, <<65>>, <<97>>>>)>>

\* vendor/{m.go: "a"  sub/{d.go: "a"}}: the root path is "vendor"
TreeVendorRoot ==
  <<DirEntry(NameVendor, 0),
    FileEntry(<<109, 46, 103, 111>>, 1, <<<<97>>>>),
    DirEntry(NameSub, 1),
    FileEntry(<<100, 46, 103, 111>>, 3, <<<<97>>>>)>>

\* the root path "vendor" is a regular file
TreeVendorFile == <<FileEntry(NameVendor, 0, <<<<97>>, <<97>>>>)>>

ScanSearches ==
  {[tree |-> TreeScan(line), cfg |-> Config(kw, ic, <<>>, <<>>, 1, re)] :
     line \in Lines, kw \in Keywords, ic \in BOOLEAN, re \in BOOLEAN}

ConcSearches ==
  {[tree |-> TreeConc, cfg |-> Config(KwA, ~re, <<>>, <<>>, n, re)] :
     n \in 0..MaxWorkers, re \in BOOLEAN}

FilterSearches ==
  {[tree |-> TreeFilter, cfg |-> Config(KwA, FALSE, exts, <<>>, 1, FALSE)] :
     exts \in {<<>>, <<ExtGo, ExtMd>>, <<ExtGO>>, <<ExtMd>>}}

ExcludeSearches ==
  {[tree |-> TreeExclude, cfg |-> Config(KwA, FALSE, exts, excl, n, FALSE)] :
     exts \in {<<>>, <<ExtGo>>},
     excl \in {<<>>, <<NameVendor>>, <<NameSub>>, <<NameF, NameVendor>>},
     n \in {1, 2}}

ErrorSearches ==
  {[tree |-> t, cfg |-> Config(kw, FALSE, <<>>, <<NameVendor>>, n, re)] :
     t \in {TreeErrors, TreeNoRoot, TreeRootFile, TreeLongLine},
     kw \in {KwA, <<40>>}, n \in {1, 2}, re \in BOOLEAN}

NumberSearches ==
  {[tree |-> TreeSkip, cfg |-> Config(KwA, FALSE, <<>>, <<>>, 2, re)] :
     re \in BOOLEAN}

\* the searches whose root path is "vendor"
RootSearches ==
  {[tree |-> t,
    cfg |-> [Config(KwA, FALSE, <<>>, excl, n, FALSE) EXCEPT !.StartDir = NameVendor]] :
     t \in {TreeVendorRoot, TreeVendorFile},
     excl \in {<<NameVendor>>, <<NameSub, NameVendor>>, <<NameSub>>},
     n \in {1, 2}}

QueueSearches ==
  {[tree |-> TreeQueue, cfg |-> Config(KwA, FALSE, <<>>, <<>>, 1, FALSE)]}

Searches ==
  ScanSearches \cup ConcSearches \cup FilterSearches \cup ExcludeSearches
    \cup ErrorSearches \cup NumberSearches \cup RootSearches \cup QueueSearches

\* the searches of the fair specification: more files than fileChan holds,
\* Workers <= 0, several workers on several files, entries that fail, and
\* scans that do not come to an end
TreePair ==
  <<DirEntry(NameR, 0), FileEntry(<<102>>, 1, <<<<97>>>>),
    FileEntry(<<103>>, 1, <<<<65, 97>>>>)>>

LiveSearches ==
  QueueSearches
    \cup {[tree |-> TreePair, cfg |-> Config(KwA, FALSE, <<>>, <<>>, 0, TRUE)],
          [tree |-> TreeRootFile, cfg |-> Config(KwA, TRUE, <<>>, <<>>, -1, FALSE)]}
    \cup {s \in ConcSearches : s.cfg.Workers \in {1, 2}}
    \cup ErrorSearches
    \cup {s \in ScanSearches : Len(s.tree[2].lines[1]) <= 1 /\ ~s.cfg.Regexp}

\* the state at the entry of Search (lines 155-173) for a search of S
InitOf(S) ==
  /\ \E s \in S : tree = s.tree /\ cfg = s.cfg
  /\ spc = "start"
  /\ nworkers = 0
  /\ stack = <<>>
  /\ walkErr = "nil"
  /\ visited = {}
  /\ pushed = <<>>
  /\ fileChan = <<>>
  /\ closed = FALSE
  /\ mu = 0
  /\ matchCount = 0
  /\ fileCount = 0
  /\ wpc = [w \in WorkerIds |-> "none"]
  /\ wfile = [w \in WorkerIds |-> 0]
  /\ wlineNum = [w \in WorkerIds |-> 0]
  /\ wmatched = [w \in WorkerIds |-> FALSE]
  /\ wmatches = [w \in WorkerIds |-> <<>>]
  /\ wpos = [w \in WorkerIds |-> 0]
  /\ witer = [w \in WorkerIds |-> 0]
  /\ out = [n \in Nodes(tree) |-> <<>>]
  /\ crashed = FALSE
  /\ ret = [matchCount |-> 0, fileCount |-> 0, err |-> "none"]

Init == InitOf(Searches)

LiveInit == InitOf(LiveSearches)

Next ==
  \/ Start
  \/ WalkStep
  \/ CloseChan
  \/ Return
  \/ \E w \in WorkerIds : WorkerRecv(w)
  \/ \E w \in WorkerIds : WorkerExit(w)
  \/ \E w \in WorkerIds : WorkerOpen(w)
  \/ \E w \in WorkerIds : WorkerScan(w)
  \/ \E w \in WorkerIds : WorkerLock(w)
  \/ \E w \in WorkerIds : WorkerHeader(w)
  \/ \E w \in WorkerIds : WorkerCount(w)
  \/ \E w \in WorkerIds : WorkerUnlock(w)
  \/ \E w \in WorkerIds : WorkerNum(w)
  \/ \E w \in WorkerIds : WorkerHighlight(w)
  \/ \E w \in WorkerIds : WorkerTail(w)

Spec == Init /\ [][Next]_vars

\* the goroutine of Search, and the goroutine of worker w
SearchNext == Start \/ WalkStep \/ CloseChan \/ Return

WorkerNext(w) ==
  \/ WorkerRecv(w) \/ WorkerExit(w) \/ WorkerOpen(w) \/ WorkerScan(w)
  \/ WorkerLock(w) \/ WorkerHeader(w) \/ WorkerCount(w) \/ WorkerUnlock(w)
  \/ WorkerNum(w) \/ WorkerHighlight(w) \/ WorkerTail(w)

\* the Go scheduler: a goroutine that can take a step, and stays able to,
\* eventually takes it
FairSpec ==
  /\ LiveInit
  /\ [][Next]_vars
  /\ WF_vars(SearchNext)
  /\ \A w \in WorkerIds : WF_vars(WorkerNext(w))

\* ------------------------------------------- what a search should yield

Range(q) == {q[i] : i \in 1..Len(q)}

\* x is an element of the sequence q
InSeq(q, x) == \E i \in 1..Len(q) : q[i] = x

RECURSIVE SumOver(_, _)
SumOver(S, f) ==
  IF S = {} THEN 0
  ELSE LET x == CHOOSE y \in S : TRUE IN f[x] + SumOver(S \ {x}, f)

\* the lines of a file that the scanner delivers
ScannedLines(file) ==
  IF file.longAt = 0 THEN 1..Len(file.lines) ELSE 1..(file.longAt - 1)

\* the file can be scanned: it opens and the pattern compiles
Scannable(c, file) == ~file.openErr /\ (c.Regexp => FileRegexp(c).ok)

\* the lines of the file that are reported
MatchingLines(c, file) ==
  IF Scannable(c, file)
  THEN {i \in ScannedLines(file) : ~LineSkipped(c, file.lines[i])}
  ELSE {}

\* what a sequential scan of the file adds to matchCount
FileMatches(c, file) ==
  LET M == MatchingLines(c, file)
  IN SumOver(M, [i \in M |->
       LineCount(c, IF c.Regexp THEN FindAllStringIndex(FileRegexp(c), file.lines[i])
                    ELSE <<>>)])

\* the extension of a name: what follows its last dot
NameHasExt(name, e) ==
  /\ LastIndexByte(name, 46) > 0
  /\ ToLowerBytewise(SubSeq(name, LastIndexByte(name, 46) + 1, Len(name)))
       = ToLowerBytewise(e)

InAllowList(c, name) ==
  Len(c.Exts) = 0 \/ \E e \in Range(c.Exts) : NameHasExt(name, e)

\* n lies strictly inside a directory with an excluded name
InsideExcluded(t, c, n) ==
  \E a \in Ancestors(t, n) :
    t[a].kind = "dir" /\ t[a].name \in Range(c.ExcludeDirs)

\* every directory above n can be read and is not excluded
Reachable(t, c, n) ==
  \A a \in Ancestors(t, n) :
    t[a].kind = "dir" /\ ~t[a].listErr /\ t[a].name \notin Range(c.ExcludeDirs)

\* the candidate files of the search
Candidates(t, c) ==
  {n \in Nodes(t) :
     t[n].kind = "reg" /\ Reachable(t, c, n) /\ InAllowList(c, t[n].name)}

ExpectedMatchCount(t, c) ==
  LET C == Candidates(t, c)
  IN SumOver(C, [n \in C |-> FileMatches(c, t[n])])

ExpectedFileCount(t, c) ==
  Cardinality({n \in Candidates(t, c) : MatchingLines(c, t[n]) # {}})

ActiveWorkers == {w \in WorkerIds : w <= nworkers}

InCritical(w) == wpc[w] \in {"header", "count", "unlock"}

HeaderCount(n) == Cardinality({i \in 1..Len(out[n]) : out[n][i][1] = "hdr"})

\* --------------------------------------------------------------- claims

\* C1: when the search root cannot be accessed Search returns a non-nil
\* error with matchCount = 0 and fileCount = 0, and in no other situation
\* does it return a non-nil error.
C1_RootErrorSurfaced ==
  spc = "done" =>
    /\ (tree[1].kind = "err" <=> ret.err # "nil")
    /\ (tree[1].kind = "err" => ret.matchCount = 0 /\ ret.fileCount = 0)

\* C2: the counts Search returns are those of a sequential scan of the
\* candidate files, whatever the scheduling and the number of workers: every
\* candidate file contributes exactly once.
C2_CountsDeterministic ==
  spc = "done" =>
    /\ ret.matchCount = ExpectedMatchCount(tree, cfg)
    /\ ret.fileCount = ExpectedFileCount(tree, cfg)

C2_Witness ==
  /\ spc = "done"
  /\ nworkers = DefaultWorkers
  /\ cfg.Workers = 0
  /\ ret.fileCount = 2
  /\ ret.matchCount > 2

\* C3: when Search has returned the walk is over, the queue is closed and
\* empty, every worker has left its loop and scans nothing, and the counts
\* returned hold the contribution of every file that was pushed.
C3_ReturnsAfterDrain ==
  spc = "done" =>
    /\ stack = <<>>
    /\ closed
    /\ fileChan = <<>>
    /\ \A w \in ActiveWorkers : wpc[w] = "exited" /\ wfile[w] = 0
    /\ ret.matchCount =
         SumOver(Range(pushed), [n \in Range(pushed) |-> FileMatches(cfg, tree[n])])
    /\ ret.fileCount =
         Cardinality({n \in Range(pushed) : MatchingLines(cfg, tree[n]) # {}})

C3_Witness ==
  /\ spc = "done"
  /\ Len(pushed) >= 3
  /\ nworkers = 2
  /\ ret.matchCount >= 2

\* C4: a file strictly inside a directory whose name is an entry of
\* ExcludeDirs is never visited, never pushed and never scanned, at any depth.
C4_ExcludedNeverScanned ==
  \A n \in Nodes(tree) :
    InsideExcluded(tree, cfg, n) =>
      /\ n \notin visited
      /\ ~InSeq(pushed, n)
      /\ \A w \in WorkerIds : wfile[w] # n
      /\ out[n] = <<>>

C4_Witness ==
  /\ spc = "done"
  /\ ret.fileCount >= 1
  /\ \E n \in Nodes(tree) :
       /\ tree[n].kind = "reg"
       /\ tree[n].lines # <<>>
       /\ \E a \in Ancestors(tree, n) :
            /\ a # tree[n].parent
            /\ a \in visited
            /\ tree[a].name \in Range(cfg.ExcludeDirs)

\* C5: a visited entry that is not a directory is pushed iff it is a regular
\* file and the allow-list is empty or holds its extension up to letter case;
\* nothing but regular files is pushed.
C5_PushedIffAllowedRegular ==
  /\ \A n \in visited :
       tree[n].kind # "dir" =>
         (InSeq(pushed, n) <=>
            tree[n].kind = "reg" /\ InAllowList(cfg, tree[n].name))
  /\ \A n \in Range(pushed) : tree[n].kind = "reg"

C5_Witness ==
  /\ spc = "done"
  /\ cfg.Exts = <<ExtGo, ExtMd>>
  /\ \E n \in Range(pushed) : tree[n].name = <<97, 46, 71, 79>>
  /\ \E n \in visited \ Range(pushed) : tree[n].name = <<97, 46, 116, 120, 116>>
  /\ \E n \in visited \ Range(pushed) : tree[n].kind = "other"

\* C6: matchCount >= fileCount whenever no worker is inside the critical
\* section, and in the result of Search.
C6_MatchesAtLeastFiles ==
  /\ (\A w \in WorkerIds : ~InCritical(w)) => matchCount >= fileCount
  /\ spc = "done" => ret.matchCount >= ret.fileCount

C6_Witness ==
  /\ \A w \in WorkerIds : ~InCritical(w)
  /\ spc = "wait"
  /\ cfg.Regexp
  /\ fileCount = 2
  /\ matchCount > fileCount

\* the non-overlapping occurrences of sub in s from offset `from`, left to right
RECURSIVE OccurrencesFrom(_, _, _)
OccurrencesFrom(s, sub, from) ==
  IF from > Len(s) THEN <<>>
  ELSE LET idx == Index(Slice(s, from, Len(s)), sub)
       IN IF idx = -1 THEN <<>>
          ELSE <<<<from + idx, from + idx + Len(sub)>>>>
                 \o OccurrencesFrom(s, sub, from + idx + Max({Len(sub), 1}))

\* the number of match spans of a line
SpanCount(c, line) ==
  IF c.Regexp THEN Len(FindAllStringIndex(FileRegexp(c), line))
  ELSE IF c.IgnoreCase
       THEN Len(OccurrencesFrom(ToLower(line), ToLower(c.Keyword), 0))
       ELSE Len(OccurrencesFrom(line, c.Keyword, 0))

\* the match spans of all the scanned lines of a file
FileSpans(c, file) ==
  LET L == IF Scannable(c, file) THEN ScannedLines(file) ELSE {}
  IN SumOver(L, [i \in L |-> SpanCount(c, file.lines[i])])

\* C7: in both modes a line with k match spans adds k to matchCount, so the
\* matchCount returned is the number of match spans of all scanned lines.
C7_MatchCountIsSpanCount ==
  spc = "done" =>
    ret.matchCount =
      SumOver(Range(pushed), [n \in Range(pushed) |-> FileSpans(cfg, tree[n])])

FirstMatchingLine(c, file) ==
  LET M == MatchingLines(c, file) IN IF M = {} THEN 0 ELSE Min(M)

\* the worker has not yet run the header block of the line it is on
BeforeHeader(w) == wpc[w] \in {"lock", "header"}

ScanOver(n) ==
  InSeq(pushed, n) /\ ~InSeq(fileChan, n) /\ \A w \in WorkerIds : wfile[w] # n

\* C8: per file the header is written and fileCount incremented at most once,
\* at the first matching line and before any record of the file, and exactly
\* once iff the file has a matching line.
C8_HeaderOncePerFile ==
  /\ \A n \in Nodes(tree) :
       LET headers == HeaderCount(n)
           first == FirstMatchingLine(cfg, tree[n])
       IN /\ headers <= 1
          /\ out[n] # <<>> => out[n][1][1] = "hdr"
          /\ \A w \in WorkerIds :
               wfile[w] = n =>
                 (headers = 1 <=>
                    /\ first # 0
                    /\ \/ wlineNum[w] > first
                       \/ wlineNum[w] = first /\ ~BeforeHeader(w))
          /\ ScanOver(n) => (headers = 1 <=> first # 0)
  /\ fileCount = Cardinality({n \in Nodes(tree) : HeaderCount(n) = 1})

C8_Witness ==
  /\ spc = "done"
  /\ \E n \in Nodes(tree) :
       /\ Cardinality(MatchingLines(cfg, tree[n])) >= 2
       /\ HeaderCount(n) = 1
       /\ Len(out[n]) > 4
  /\ \E n \in Range(pushed) : HeaderCount(n) = 0

\* C9: an entry that cannot be accessed, a file that cannot be opened and a
\* pattern that does not compile leave no output and no count, Search still
\* returns a nil error, and every other candidate file is pushed and scanned.
C9_FailuresAbsorbed ==
  /\ \A n \in Nodes(tree) :
       (tree[n].kind # "reg" \/ tree[n].openErr
          \/ (cfg.Regexp /\ ~FileRegexp(cfg).ok)) => out[n] = <<>>
  /\ (cfg.Regexp /\ ~FileRegexp(cfg).ok) => matchCount = 0 /\ fileCount = 0
  /\ (spc = "done" /\ tree[1].kind # "err") =>
       /\ ret.err = "nil"
       /\ Candidates(tree, cfg) = Range(pushed)
       /\ fileChan = <<>>
       /\ LET good == {n \in Candidates(tree, cfg) : Scannable(cfg, tree[n])}
          IN /\ ret.matchCount = SumOver(good, [n \in good |-> FileMatches(cfg, tree[n])])
             /\ ret.fileCount =
                  Cardinality({n \in good : MatchingLines(cfg, tree[n]) # {}})

C9_Witness ==
  /\ spc = "done"
  /\ \E n \in visited : tree[n].kind = "err"
  /\ \E n \in visited : tree[n].kind = "dir" /\ tree[n].listErr
  /\ \E n \in Range(pushed) : tree[n].openErr
  /\ ret.fileCount = 1
  /\ ret.err = "nil"

\* the events of the record a file's output ends with
RecordSegs(n) ==
  LET nums == {i \in 1..Len(out[n]) : out[n][i][1] = "num"}
  IN IF nums = {} THEN <<>> ELSE SubSeq(out[n], Max(nums) + 1, Len(out[n]))

\* the spans highlighted by a record, as offsets into the line: a segment
\* that is not highlighted is written after two spaces
RECURSIVE SpansOfSegs(_, _)
SpansOfSegs(segs, cursor) ==
  IF segs = <<>> THEN <<>>
  ELSE IF Head(segs)[1] # "seg" THEN SpansOfSegs(Tail(segs), cursor)
  ELSE IF Head(segs)[3]
       THEN <<<<cursor, cursor + Len(Head(segs)[2])>>>>
              \o SpansOfSegs(Tail(segs), cursor + Len(Head(segs)[2]))
  ELSE SpansOfSegs(Tail(segs), cursor + Len(Head(segs)[2]) - 2)

\* the non-overlapping places of the line, left to right, whose text is the
\* keyword up to letter case
RECURSIVE FoldedSpansFrom(_, _, _)
FoldedSpansFrom(line, kw, from) ==
  LET at == {i \in from..(Len(line) - Len(kw)) :
               ToLower(Slice(line, i, i + Len(kw))) = ToLower(kw)}
  IN IF at = {} \/ kw = <<>> THEN <<>>
     ELSE <<<<Min(at), Min(at) + Len(kw)>>>>
            \o FoldedSpansFrom(line, kw, Min(at) + Len(kw))

\* C10: in literal mode with IgnoreCase the spans highlighted on a line are
\* the non-overlapping occurrences of the keyword up to letter case, as
\* offsets into the original line, and every span lies within the line.
C10_FoldedSpansInOriginalLine ==
  (~cfg.Regexp /\ cfg.IgnoreCase) =>
    \A w \in WorkerIds :
      /\ wpc[w] # "panic"
      /\ wpc[w] = "tail" =>
           SpansOfSegs(RecordSegs(wfile[w]), 0)
             = FoldedSpansFrom(CurLine(w), cfg.Keyword, 0)

\* the worker is on a line that it reports
Reporting(w) ==
  wpc[w] \in {"lock", "header", "count", "unlock", "num", "hl", "tail", "panic"}

\* C11: in literal mode without IgnoreCase a line is reported iff it holds
\* the keyword with the given casing, and the spans highlighted on it are the
\* non-overlapping left-to-right case-sensitive occurrences of the keyword:
\* text equal to the keyword only up to letter case is never highlighted.
C11_CaseSensitiveEndToEnd ==
  (~cfg.Regexp /\ ~cfg.IgnoreCase) =>
    \A w \in WorkerIds :
      /\ Reporting(w) => Contains(CurLine(w), cfg.Keyword)
      /\ wpc[w] # "panic"
      /\ wpc[w] = "tail" =>
           SpansOfSegs(RecordSegs(wfile[w]), 0)
             = OccurrencesFrom(CurLine(w), cfg.Keyword, 0)

\* the line number of the record a file's output ends with (0: no record)
RecordNum(n) ==
  LET nums == {i \in 1..Len(out[n]) : out[n][i][1] = "num"}
  IN IF nums = {} THEN 0 ELSE out[n][Max(nums)][2]

\* the record a file's output ends with is complete
RecordClosed(n) == out[n] # <<>> /\ out[n][Len(out[n])][1] = "eol"

\* the texts of the segments of a record, in emission order
RECURSIVE ConcatSegs(_)
ConcatSegs(segs) ==
  IF segs = <<>> THEN <<>>
  ELSE IF Head(segs)[1] = "seg" THEN Head(segs)[2] \o ConcatSegs(Tail(segs))
  ELSE ConcatSegs(Tail(segs))

\* C12: in both modes the segments of a complete record, concatenated in
\* emission order, are the original line: the text that is not matched is
\* kept as it is and nothing is inserted between the segments.
C12_SegmentsCoverLine ==
  \A w \in WorkerIds :
    (wpc[w] = "scan" /\ wfile[w] # 0 /\ wlineNum[w] # 0
       /\ RecordNum(wfile[w]) = wlineNum[w] /\ RecordClosed(wfile[w]))
      => ConcatSegs(RecordSegs(wfile[w])) = CurLine(w)

\* the worker has written the line number of a record and not yet its end
MidRecord(w) == wpc[w] \in {"hl", "tail"}

\* C13: the emission of one record is atomic with respect to the other
\* workers: while a worker is between the first and the last write of a
\* record, nothing is written to the output of a file of another worker.
C13_RecordEmissionAtomic ==
  [][\A w \in WorkerIds :
       MidRecord(w) =>
         \A n \in Nodes(tree) : n # wfile[w] => out'[n] = out[n]]_vars

\* the scan of a line does not come to an end: the process has died of a
\* panic, or a worker is in a highlight loop that does not advance
ScanStuck ==
  crashed \/ \E w \in WorkerIds : wpc[w] = "hl" /\ witer[w] >= MaxIter

\* C14: under fair scheduling, and as long as every scan of a file comes to an
\* end, Search returns: the walker is not blocked for ever on a full queue and
\* every worker sees the queue closed and empty and leaves, for every number
\* of candidate files and every Workers value.
C14_SearchReturns == <>(spc = "done" \/ ScanStuck)

C14_Witness ==
  /\ spc = "done"
  /\ Len(pushed) > ChanCap
  /\ \A w \in ActiveWorkers : wpc[w] = "exited"

\* C15: a match of length zero never makes a highlight loop run for ever, in
\* regex mode and in literal mode: every iteration that stays in the loop
\* moves the cursor forward or consumes one of the matches still to print.
C15_ZeroLengthMatchAdvances ==
  [][\A w \in WorkerIds :
       (wpc[w] = "hl" /\ wpc'[w] = "hl" /\ witer'[w] = witer[w] + 1) =>
         \/ wpos'[w] > wpos[w]
         \/ Len(wmatches'[w]) < Len(wmatches[w])]_vars

\* the callback sends the entry at the head of the stack on fileChan
NextIsPush ==
  /\ spc = "walk"
  /\ stack # <<>>
  /\ WalkFn(tree, cfg, Head(stack), WalkFailed(tree, Head(stack))).push

\* C16: the queue never holds more than ChanCap paths and the walker blocks
\* when it is full; what it holds was sent by the walker and not yet received;
\* it is closed once, when the traversal has ended, and after that nothing can
\* be sent and it cannot be closed again; a worker has left its loop only if
\* the queue is closed and empty.
C16_QueueProtocol ==
  /\ Len(fileChan) <= ChanCap
  /\ (NextIsPush /\ Len(fileChan) = ChanCap) => ~ENABLED WalkStep
  /\ \E k \in 0..Len(pushed) : fileChan = SubSeq(pushed, k + 1, Len(pushed))
  /\ closed <=> spc \in {"wait", "done"}
  /\ closed => stack = <<>> /\ ~ENABLED WalkStep /\ ~ENABLED CloseChan
  /\ \A w \in WorkerIds : wpc[w] = "exited" => closed /\ fileChan = <<>>

C16_Witness ==
  /\ NextIsPush
  /\ Len(fileChan) = ChanCap
  /\ Len(pushed) = ChanCap
  /\ ~ENABLED WalkStep

\* the state of worker w: its position and the locals of processFile
Private(w) ==
  <<wpc[w], wfile[w], wlineNum[w], wmatched[w], wmatches[w], wpos[w], witer[w]>>

\* the mutex is held by the worker inside the critical section and by nobody
\* else, never by a worker that opens a file, reads or matches a line
\* or prints; Search has read the counters only when every worker had left
MutexInv ==
  /\ mu \in {0} \cup ActiveWorkers
  /\ \A w \in WorkerIds : InCritical(w) <=> mu = w
  /\ \A w \in WorkerIds :
       wpc[w] \in {"recv", "open", "scan", "lock", "num", "hl", "tail"} => mu # w
  /\ spc = "done" =>
       /\ \A w \in ActiveWorkers : wpc[w] = "exited"
       /\ ret.err = "nil" => ret.matchCount = matchCount /\ ret.fileCount = fileCount

\* once the workers are started, a step writes the locals of at most one
\* worker; the counters are written only by a step of the worker that holds
\* the mutex, which writes nothing of the walk
WritesUnderMutex ==
  /\ spc # "start" =>
       \A w, v \in WorkerIds :
         (Private(w)' # Private(w) /\ Private(v)' # Private(v)) => w = v
  /\ (matchCount' # matchCount \/ fileCount' # fileCount) =>
       \E w \in ActiveWorkers :
         /\ mu = w /\ mu' = w
         /\ Private(w)' # Private(w)
         /\ UNCHANGED walkVars

\* C17: the counters are the only state more than one worker writes, a
\* worker writes them only while it holds the mutex, at most one worker holds
\* the mutex, Search reads the counters only after every worker has left,
\* and the mutex is not held while a file is opened or a line read or matched.
C17_MutexDiscipline == [][MutexInv /\ MutexInv' /\ WritesUnderMutex]_vars

C17_Witness ==
  \E w, v \in ActiveWorkers :
    /\ wpc[w] = "count" /\ mu = w /\ matchCount > 0
    /\ wpc[v] = "lock"
    /\ \E u \in ActiveWorkers : wpc[u] = "scan"

\* the line numbers of the records of a file, in emission order
RECURSIVE NumsOf(_)
NumsOf(events) ==
  IF events = <<>> THEN <<>>
  ELSE IF Head(events)[1] = "num"
       THEN <<Head(events)[2]>> \o NumsOf(Tail(events))
       ELSE NumsOf(Tail(events))

\* C18: a file is handed to one worker, which scans it alone from its first
\* line on; the records of a file carry strictly increasing line numbers,
\* each the position, counted from 1 over every line read, of a line that
\* matches, and when the scan is over every such line has its record.
C18_OneWorkerOrderedRecords ==
  /\ Cardinality(Range(pushed)) = Len(pushed)
  /\ \A w \in WorkerIds :
       wfile[w] # 0 =>
         /\ InSeq(pushed, wfile[w]) /\ ~InSeq(fileChan, wfile[w])
         /\ \A v \in WorkerIds \ {w} : wfile[v] # wfile[w]
         /\ LET nums == NumsOf(out[wfile[w]])
            IN \A i \in 1..Len(nums) : nums[i] <= wlineNum[w]
  /\ \A n \in Nodes(tree) :
       out[n] # <<>> =>
         LET nums == NumsOf(out[n])
             matching == MatchingLines(cfg, tree[n])
         IN /\ InSeq(pushed, n) /\ ~InSeq(fileChan, n)
            /\ \A i \in 1..Len(nums) : nums[i] \in matching
            /\ \A i, j \in 1..Len(nums) : i < j => nums[i] < nums[j]
            /\ ScanOver(n) => Range(nums) = matching

C18_Witness ==
  /\ spc = "done"
  /\ nworkers = 2
  /\ \E n, m \in Nodes(tree) :
       /\ tree[n].lines = <<<<65>>, <<97>>, <<65>>, <<97>>>>
       /\ NumsOf(out[n]) = <<2, 4>>
       /\ NumsOf(out[m]) = <<3>>

\* the lines of the file that the branch's test accepts, whatever their length
AllMatchingLines(c, file) ==
  {i \in 1..Len(file.lines) : ~LineSkipped(c, file.lines[i])}

\* C19: the scan of a file that opens, with a pattern that compiles, stops
\* only at the end of the file: when it is over, every line of the file that
\* matches has its record, whatever the length of the lines.
C19_ScanStopsOnlyAtEOF ==
  \A n \in Nodes(tree) :
    (ScanOver(n) /\ Scannable(cfg, tree[n])) =>
      Range(NumsOf(out[n])) = AllMatchingLines(cfg, tree[n])

\* the base name of the root path is an entry of ExcludeDirs
RootNameExcluded ==
  \E i \in 1..Len(cfg.ExcludeDirs) : Base(cfg.StartDir) = cfg.ExcludeDirs[i]

\* C20: the exclusion applies to the root.  When the root is a directory
\* whose base name is an entry of ExcludeDirs the walk prunes it: nothing
\* below it is visited, pushed or scanned and Search returns 0, 0 and a nil
\* error.  A root that is a regular file with such a name is searched.
C20_RootExclusion ==
  /\ cfg.StartDir = tree[1].name
  /\ (RootNameExcluded /\ tree[1].kind = "dir") =>
       /\ visited \subseteq {1}
       /\ pushed = <<>>
       /\ \A w \in WorkerIds : wfile[w] = 0
       /\ \A n \in Nodes(tree) : out[n] = <<>>
       /\ matchCount = 0 /\ fileCount = 0
       /\ spc = "done" => ret = [matchCount |-> 0, fileCount |-> 0, err |-> "nil"]
  /\ (RootNameExcluded /\ tree[1].kind = "reg" /\ spc = "done") =>
       /\ pushed = <<1>>
       /\ ret.err = "nil"
       /\ ret.matchCount = FileMatches(cfg, tree[1])
       /\ ret.fileCount = IF MatchingLines(cfg, tree[1]) = {} THEN 0 ELSE 1

C20_Witness ==
  /\ spc = "done"
  /\ RootNameExcluded
  /\ tree[1].kind = "dir"
  /\ visited = {1}
  /\ \E n \in Nodes(tree) :
       tree[n].parent = 1 /\ tree[n].kind = "reg" /\ MatchingLines(cfg, tree[n]) # {}
  /\ ret = [matchCount |-> 0, fileCount |-> 0, err |-> "nil"]

====
